---- MODULE Spec2Model ----
(***************************************************************************)
(* Adaptive item selection with blueprint balancing and IRT 3PL scoring.   *)
(*                                                                         *)
(* Units.  Reals of the program are kept as scaled integers:               *)
(*   weights, c, exposure, exposure_limit : hundredths (0.35 -> 35)        *)
(*   a, b, prior mean and variance       : tenths     (1.2  -> 12)         *)
(*   theta, SE                           : thousandths (0.41 -> 410)       *)
(*   probabilities, derivatives, info    : 1/Scale    (0.5  -> 5000)       *)
(***************************************************************************)
EXTENDS Integers, Sequences, FiniteSets, TLC

\* ---------------------------------------------------------------- bounds
NItems == 7        \* size of the item bank
MaxLength == 4     \* largest blueprint length explored through the blueprint API
MaxSessionLength == 2  \* largest blueprint length of a selector session
MaxCalls == 3      \* select_next_item calls per session
MaxServes == 3     \* direct update_state_on_serve calls per session
MaxAnswers == 2    \* answered pairs in the history of a MAP update
MaxSteps == 3      \* largest max_steps of a session loop
NThreads == 2      \* threads that share one ApiThrottler
MaxGrants == 3     \* _wait_for_slot calls begun on one ApiThrottler
MaxTime == 6       \* seconds the clock is followed
MaxRetries == 3    \* largest max_retries of a safe_openai_chat call

\* ------------------------------------------------------ program constants
ExposureStep == 5            \* 0.05 added per serve
ExposureCap == 100           \* min(1.0, ...)
DefaultExposureLimit == 30   \* exposure_limit = 0.30
InitialBestInfo == -1        \* best_info = -1.0 (sign is what matters)
Scale == 100 * 100           \* fixed-point unit of probabilities

\* Python's None, as a value comparable with blueprint states and records.
None == [none |-> TRUE]
NoItem == 0                  \* best_item = None (no bank position)

Max(x, y) == IF x >= y THEN x ELSE y
Min(x, y) == IF x <= y THEN x ELSE y

RECURSIVE SumOver(_, _)
SumOver(f, S) ==
    IF S = {} THEN 0
    ELSE LET k == CHOOSE x \in S : TRUE IN f[k] + SumOver(f, S \ {k})

\* ------------------------------------------------------------- blueprint
\* DifficultyMix / SkillSpec / DomainSpec / BlueprintSpec as records.
DifficultyMix(e, m, h) == [easy |-> e, medium |-> m, hard |-> h]
SkillSpec(w, mix) == [weight |-> w, difficulty |-> mix]
DomainSpec(w, sk) == [weight |-> w, skills |-> sk]
BlueprintSpec(doms, L) == [domains |-> doms, length |-> L]

DiffLabels == {"easy", "medium", "hard"}

\* make_default_blueprint(total_length)
make_default_blueprint(total_length) ==
    LET math_skills ==
            ("Algebra" :> SkillSpec(35, DifficultyMix(35, 50, 15)))
         @@ ("Advanced Math" :> SkillSpec(35, DifficultyMix(25, 55, 20)))
         @@ ("Problem Solving" :> SkillSpec(30, DifficultyMix(40, 45, 15)))
        rw_skills ==
            ("Vocabulary" :> SkillSpec(25, DifficultyMix(45, 45, 10)))
         @@ ("Rhetoric" :> SkillSpec(40, DifficultyMix(30, 50, 20)))
         @@ ("Grammar" :> SkillSpec(35, DifficultyMix(40, 45, 15)))
        domains == ("Math" :> DomainSpec(50, math_skills))
                @@ ("R&W" :> DomainSpec(50, rw_skills))
    IN BlueprintSpec(domains, total_length)

\* Two domains of weight 0.5 with one skill each (the length-2 scenario).
TwoDomainBlueprint(total_length) ==
    BlueprintSpec(
        ("Math" :> DomainSpec(50, ("Algebra" :> SkillSpec(100, DifficultyMix(100, 0, 0)))))
     @@ ("R&W" :> DomainSpec(50, ("Grammar" :> SkillSpec(100, DifficultyMix(0, 100, 0))))),
        total_length)

\* One domain whose skill weight and difficulty mix are all zero: _safe_norm
\* then splits evenly.
FlatBlueprint(total_length) ==
    BlueprintSpec(
        ("Math" :> DomainSpec(100, ("Algebra" :> SkillSpec(0, DifficultyMix(0, 0, 0))))),
        total_length)

\* _safe_norm: the normalised weight of key k as the fraction num/den.
norm_with(weights, k, s) ==
    IF s <= 0
    THEN [num |-> 1, den |-> Max(1, Cardinality(DOMAIN weights))]
    ELSE [num |-> Max(0, weights[k]), den |-> s]

safe_norm(weights, k) ==
    norm_with(weights, k,
              SumOver([x \in DOMAIN weights |-> Max(0, weights[x])], DOMAIN weights))

\* _clip_nonneg(x) for x = num/den: max(0, floor(x)).
clip_nonneg(num, den) == Max(0, num \div den)

\* _clip_nonneg(t * w) for the normalised weight w = num/den.
clip_share(t, w) == clip_nonneg(t * w.num, w.den)

\* _targets_for_domain, lines 120-124: the skill targets of a domain.
skill_targets(dspec, domain_target) ==
    [s \in DOMAIN dspec.skills |->
        clip_share(domain_target,
                   safe_norm([x \in DOMAIN dspec.skills |-> dspec.skills[x].weight], s))]

\* _targets_for_domain, lines 126-135: the difficulty targets of one skill.
diff_targets(mix, t) ==
    [k \in DiffLabels |->
        clip_share(t, safe_norm(mix, k))]

\* The node of compute_all_targets' tree for one domain.
domain_tree(dspec, skill_target, domain_target) ==
    [total |-> domain_target,
     by_skill |-> [s \in DOMAIN dspec.skills |->
                     [total |-> skill_target[s],
                      by_diff |-> diff_targets(dspec.skills[s].difficulty,
                                               skill_target[s])]]]

\* _targets_for_domain: domain target, skill targets, difficulty targets,
\* each floor-rounded from the level above.
targets_below(dspec, domain_target) ==
    domain_tree(dspec, skill_targets(dspec, domain_target), domain_target)

\* _targets_for_domain, lines 114-118: the domain target floor(L * weight).
targets_for_domain(spec, domain_name) ==
    targets_below(spec.domains[domain_name],
                  clip_nonneg(spec.length * Max(0, spec.domains[domain_name].weight), 100))

\* compute_all_targets
compute_all_targets(spec) ==
    [d \in DOMAIN spec.domains |-> targets_for_domain(spec, d)]

\* initialize_state: every counter of the spec's tree at 0.
initialize_state(spec) ==
    [spec |-> spec,
     served |-> [d \in DOMAIN spec.domains |->
                   [total |-> 0,
                    by_skill |-> [s \in DOMAIN spec.domains[d].skills |->
                                    [total |-> 0,
                                     by_diff |-> [k \in DiffLabels |-> 0]]]]]]

\* BlueprintState.total_served
total_served(state) ==
    SumOver([d \in DOMAIN state.served |-> state.served[d].total], DOMAIN state.served)

\* Mutant: target - served without the floor at 0.
remaining_unclipped(dtarget, dc) ==
    [total |-> dtarget.total - dc.total,
     by_skill |->
        [s \in DOMAIN dtarget.by_skill \cap DOMAIN dc.by_skill |->
            [total |-> dtarget.by_skill[s].total - dc.by_skill[s].total,
             by_diff |-> [k \in DiffLabels |->
                            dtarget.by_skill[s].by_diff[k]
                              - dc.by_skill[s].by_diff[k]]]]]

\* remaining_quota, lines 198-217: the node of one domain.
remaining_of_domain(dtarget, dc) ==
    [total |-> Max(0, dtarget.total - dc.total),
     by_skill |->
        [s \in DOMAIN dtarget.by_skill \cap DOMAIN dc.by_skill |->
            [total |-> Max(0, dtarget.by_skill[s].total - dc.by_skill[s].total),
             by_diff |-> [k \in DiffLabels |->
                            Max(0, dtarget.by_skill[s].by_diff[k]
                                     - dc.by_skill[s].by_diff[k])]]]]

\* remaining_quota: max(0, target - served) at every node present in served.
remaining_from(targets, served) ==
    [d \in DOMAIN targets \cap DOMAIN served |->
        remaining_of_domain(targets[d], served[d])]

remaining_quota(state) == remaining_from(compute_all_targets(state.spec), state.served)

\* Mutant: the difficulty bucket's quota is not looked at.
skill_ok_ignores_bucket(s, item_difficulty) ==
    IF s.total <= 0 THEN FALSE
    ELSE IF item_difficulty \notin DiffLabels THEN FALSE
    ELSE TRUE

\* blueprint_ok, lines 237-247, on the skill node s of the remaining quota.
skill_ok(s, item_difficulty) ==
    IF s.total <= 0 THEN FALSE
    ELSE IF item_difficulty \notin DiffLabels THEN FALSE
    ELSE IF s.by_diff[item_difficulty] <= 0 THEN FALSE
    ELSE TRUE

\* blueprint_ok, lines 233-239, on the domain node d of the remaining quota.
domain_ok(d, item_skill, item_difficulty) ==
    IF d.total <= 0 THEN FALSE
    ELSE IF item_skill \notin DOMAIN d.by_skill THEN FALSE
    ELSE skill_ok(d.by_skill[item_skill], item_difficulty)

\* blueprint_ok, given rem = remaining_quota(state).
ok_in(rem, item_domain, item_skill, item_difficulty) ==
    IF item_domain \notin DOMAIN rem THEN FALSE
    ELSE domain_ok(rem[item_domain], item_skill, item_difficulty)

\* blueprint_ok: the chain of early returns of the code.
blueprint_ok(item_domain, item_skill, item_difficulty, state) ==
    ok_in(remaining_quota(state), item_domain, item_skill, item_difficulty)

\* Mutant: the skill total is not incremented.
serve_counters_no_skill_total(dc, item_skill, bucket) ==
    [total |-> dc.total + 1,
     by_skill |-> [dc.by_skill EXCEPT
                     ![item_skill] = [total |-> @.total,
                                      by_diff |-> [@.by_diff EXCEPT ![bucket] = @ + 1]]]]

\* Mutant: the difficulty bucket is not incremented.
serve_counters_no_bucket(dc, item_skill, bucket) ==
    [total |-> dc.total + 1,
     by_skill |-> [dc.by_skill EXCEPT ![item_skill] = [@ EXCEPT !.total = @ + 1]]]

\* update_state_on_serve, lines 264-271: the three increments; the bucket is
\* "hard" for every label other than easy and medium.
serve_counters(dc, item_skill, bucket) ==
    [total |-> dc.total + 1,
     by_skill |-> [dc.by_skill EXCEPT
                     ![item_skill] = [total |-> @.total + 1,
                                      by_diff |-> [@.by_diff EXCEPT ![bucket] = @ + 1]]]]

\* Mutant: the domain total is left alone (dc.total += 1 dropped).
update_state_no_domain_total(item_domain, item_skill, item_difficulty, state) ==
    IF item_domain \notin DOMAIN state.served
    THEN [raised |-> TRUE, state |-> state]
    ELSE IF item_skill \notin DOMAIN state.served[item_domain].by_skill
    THEN [raised |-> TRUE, state |-> state]
    ELSE [raised |-> FALSE,
          state |-> [state EXCEPT !.served[item_domain].by_skill[item_skill].total = @ + 1]]

\* update_state_on_serve: a KeyError on an unknown domain or skill is raised
\* before any counter is touched.
update_state_on_serve(item_domain, item_skill, item_difficulty, state) ==
    IF item_domain \notin DOMAIN state.served
    THEN [raised |-> TRUE, state |-> state]
    ELSE IF item_skill \notin DOMAIN state.served[item_domain].by_skill
    THEN [raised |-> TRUE, state |-> state]
    ELSE [raised |-> FALSE,
          state |-> [state EXCEPT !.served[item_domain] =
                        serve_counters(@, item_skill,
                            IF item_difficulty = "easy" THEN "easy"
                            ELSE IF item_difficulty = "medium" THEN "medium"
                            ELSE "hard")]]

\* Mutant: stops one item late (> in place of >=).
should_stop_strict(state) == total_served(state) > state.spec.length

\* Mutant: the stop check counts the Math domain only.
should_stop_math_only(state) ==
    ("Math" \in DOMAIN state.served /\ state.served["Math"].total >= state.spec.length)

\* should_stop_by_blueprint
should_stop_by_blueprint(state) == total_served(state) >= state.spec.length

\* ------------------------------------------------------------ IRT engine
D == 17                      \* D = 1.7, in tenths
EPS == 1                     \* EPS = 1e-6, in millionths
MicroPerUnit == 1000000 \div Scale   \* millionths per 1/Scale

\* Division rounded to the nearest integer, the model's counterpart of a
\* float quotient (d > 0).
RoundDiv(n, d) == (2 * n + d) \div (2 * d)

\* exp(-n) for whole n, in 1/Scale; exp(-n) rounds to 0 from n = 10 on.
ExpTable == <<10000, 3679, 1353, 498, 183, 67, 25, 9, 3, 1>>

\* The alternating series of exp(-f/1000), 0 <= f < 1000, in 1/Scale: term
\* is the k-th summand, the next one is term * (f/1000) / k.
RECURSIVE ExpSeries(_, _, _)
ExpSeries(term, f, k) ==
    IF term = 0 \/ k > 9 THEN 0
    ELSE term - ExpSeries((term * f) \div (1000 * k), f, k + 1)

\* math.exp(-x) for x = z1000/1000 >= 0, in 1/Scale: exp(-n) * exp(-f)
\* with n the whole part and f the fraction of x.
ExpNeg(z1000) ==
    IF z1000 \div 1000 >= Len(ExpTable) THEN 0
    ELSE RoundDiv(ExpTable[(z1000 \div 1000) + 1] * ExpSeries(Scale, z1000 % 1000, 1),
                  Scale)

\* sigmoid_stable(x), x in thousandths: always exponentiates a non-positive
\* argument.
sigmoid_stable(x1000) ==
    IF x1000 >= 0
    THEN (Scale * Scale) \div (Scale + ExpNeg(x1000))
    ELSE (ExpNeg(-x1000) * Scale) \div (Scale + ExpNeg(-x1000))

\* z = D * a * (theta - b), in thousandths (theta in thousandths, a and b
\* in tenths).
logit(theta, a, b) == (D * a * (theta - 100 * b)) \div 100

\* Mutant: the guessing floor c is left out.
prob_correct_no_floor(theta, a, b, c) ==
    ((100 - c) * sigmoid_stable(logit(theta, a, b))) \div 100

\* prob_correct = c + (1 - c) * s
prob_correct(theta, a, b, c) ==
    c * (Scale \div 100) + ((100 - c) * sigmoid_stable(logit(theta, a, b))) \div 100

\* (1 - c) * D * a * s * (1 - s) for the sigmoid value s.
dprob_of(s, a, c) ==
    ((100 - c) * D * a * ((s * (Scale - s)) \div Scale)) \div 10000

\* dprob_dtheta = (1 - c) * D * a * s * (1 - s)
dprob_dtheta(theta, a, b, c) == dprob_of(sigmoid_stable(logit(theta, a, b)), a, c)

\* Lines 46-50: zero when p is within EPS of 0 or 1, else dp^2 / (p (1 - p)).
info_of(p, dp) ==
    IF p * MicroPerUnit <= EPS \/ p * MicroPerUnit >= Scale * MicroPerUnit - EPS
    THEN 0
    ELSE (dp * dp) \div ((p * (Scale - p)) \div Scale)

\* fisher_info(theta, pars)
fisher_info(theta, pars) ==
    IF pars.a <= 0 \/ ~(0 <= pars.c /\ pars.c < 100) THEN 0
    ELSE info_of(prob_correct(theta, pars.a, pars.b, pars.c),
                 dprob_dtheta(theta, pars.a, pars.b, pars.c))

\* ----------------------------------------------------------- MAP update
THETA_MIN == -4000           \* THETA_MIN = -4.0, in thousandths
THETA_MAX == 4000            \* THETA_MAX = 4.0, in thousandths

\* EPS < p < 1.0 - EPS
in_open_unit(p) ==
    EPS < p * MicroPerUnit /\ p * MicroPerUnit < Scale * MicroPerUnit - EPS

\* p * (1.0 - p), in 1/Scale
bernoulli_var(p) == RoundDiv(p * (Scale - p), Scale)

\* score_term with every response counted as correct.
score_term_all_correct(resp, p, dp) ==
    IF ~in_open_unit(p) THEN 0
    ELSE RoundDiv((Scale - p) * dp, bernoulli_var(p))

\* (resp - p) * dp / (p * (1.0 - p)), in 1/Scale; nothing for a pair the p
\* test drops.
score_term(resp, p, dp) ==
    IF ~in_open_unit(p) THEN 0
    ELSE RoundDiv((resp * Scale - p) * dp, bernoulli_var(p))

\* (dp * dp) / (p * (1.0 - p)), in 1/Scale; nothing for a pair the p test
\* drops.
info_term(p, dp) ==
    IF ~in_open_unit(p) THEN 0
    ELSE RoundDiv(dp * dp, bernoulli_var(p))

\* What the pair (item_id, resp) adds to U in update_theta_map_once: a pair
\* whose item has no parameters is passed over, every other pair goes to
\* the p test.
once_score(theta, pair, pars) ==
    IF pair[1] \notin DOMAIN pars THEN 0
    ELSE score_term(pair[2],
                    prob_correct(theta, pars[pair[1]].a, pars[pair[1]].b, pars[pair[1]].c),
                    dprob_dtheta(theta, pars[pair[1]].a, pars[pair[1]].b, pars[pair[1]].c))

\* What the pair adds to I in update_theta_map_once.
once_info(theta, pair, pars) ==
    IF pair[1] \notin DOMAIN pars THEN 0
    ELSE info_term(prob_correct(theta, pars[pair[1]].a, pars[pair[1]].b, pars[pair[1]].c),
                   dprob_dtheta(theta, pars[pair[1]].a, pars[pair[1]].b, pars[pair[1]].c))

\* U after the loop over answered_pairs[i..].
RECURSIVE once_U(_, _, _, _)
once_U(theta, answered_pairs, pars, i) ==
    IF i > Len(answered_pairs) THEN 0
    ELSE once_score(theta, answered_pairs[i], pars)
         + once_U(theta, answered_pairs, pars, i + 1)

\* I after the loop over answered_pairs[i..].
RECURSIVE once_I(_, _, _, _)
once_I(theta, answered_pairs, pars, i) ==
    IF i > Len(answered_pairs) THEN 0
    ELSE once_info(theta, answered_pairs[i], pars)
         + once_I(theta, answered_pairs, pars, i + 1)

\* 1.0 / prior_var, in 1/Scale (prior_var in tenths, not 0).
precision_of(prior_var) ==
    IF prior_var > 0 THEN RoundDiv(Scale * 10, prior_var)
    ELSE -RoundDiv(Scale * 10, -prior_var)

\* math.sqrt(x), rounded down: Newton's iteration from r >= sqrt(x).
RECURSIVE sqrt_from(_, _)
sqrt_from(x, r) ==
    IF r * r <= x THEN r ELSE sqrt_from(x, (r + x \div r) \div 2)

\* 1.0 / math.sqrt(den), in thousandths (den in 1/Scale, den > 0).
se_of(den) == RoundDiv(1000000, sqrt_from(den * 100, Min(den * 100, 46340)))

\* clamp that lets every value through.
clamp_off(theta_new) == theta_new

\* min(max(theta_new, THETA_MIN), THETA_MAX)
clamp(theta_new) == Min(Max(theta_new, THETA_MIN), THETA_MAX)

\* theta + (U - (theta - prior_mean) * prior_prec) / den, in thousandths
newton_step(theta, U, den, prior_mean, prior_prec) ==
    theta + RoundDiv((U - RoundDiv((theta - 100 * prior_mean) * prior_prec, 1000)) * 1000,
                     den)

\* What a call of a MAP update gives back: kind "ok" with (theta, SE), SE
\* being +inf when finite is FALSE, or kind "raise".
Estimate(kind, theta, finite, se) ==
    [kind |-> kind, theta |-> theta, finite |-> finite, se |-> se]

\* once_result with SE +inf unless the history carries information.
once_result_needs_info(theta, U, den, prior_mean, prior_prec) ==
    IF den <= prior_prec THEN Estimate("ok", theta, FALSE, 0)
    ELSE Estimate("ok", clamp(newton_step(theta, U, den, prior_mean, prior_prec)),
                  TRUE, se_of(den))

\* Lines 81-89 of update_theta_map_once.
once_result(theta, U, den, prior_mean, prior_prec) ==
    IF den <= 0 THEN Estimate("ok", theta, FALSE, 0)
    ELSE Estimate("ok", clamp(newton_step(theta, U, den, prior_mean, prior_prec)),
                  TRUE, se_of(den))

\* update_theta_map_once(theta, answered_pairs, irt_params, prior_mean,
\* prior_var); 1.0 / prior_var raises ZeroDivisionError for prior_var = 0.
update_theta_map_once(theta, answered_pairs, pars, prior_mean, prior_var) ==
    IF prior_var = 0 THEN Estimate("raise", theta, FALSE, 0)
    ELSE once_result(theta,
                     once_U(theta, answered_pairs, pars, 1),
                     once_I(theta, answered_pairs, pars, 1) + precision_of(prior_var),
                     prior_mean, precision_of(prior_var))

\* irt_core.update_theta_map passes over a pair whose a, c are degenerate
\* before the p test: what the pair adds to U.
map_score(theta, pair, pars) ==
    IF pair[1] \notin DOMAIN pars THEN 0
    ELSE IF pars[pair[1]].a <= 0 \/ ~(0 <= pars[pair[1]].c /\ pars[pair[1]].c < 100) THEN 0
    ELSE once_score(theta, pair, pars)

\* What the pair adds to I in update_theta_map.
map_info(theta, pair, pars) ==
    IF pair[1] \notin DOMAIN pars THEN 0
    ELSE IF pars[pair[1]].a <= 0 \/ ~(0 <= pars[pair[1]].c /\ pars[pair[1]].c < 100) THEN 0
    ELSE once_info(theta, pair, pars)

RECURSIVE map_U(_, _, _, _)
map_U(theta, answered_items, pars, i) ==
    IF i > Len(answered_items) THEN 0
    ELSE map_score(theta, answered_items[i], pars)
         + map_U(theta, answered_items, pars, i + 1)

RECURSIVE map_I(_, _, _, _)
map_I(theta, answered_items, pars, i) ==
    IF i > Len(answered_items) THEN 0
    ELSE map_info(theta, answered_items[i], pars)
         + map_I(theta, answered_items, pars, i + 1)

\* Lines 103-115 of update_theta_map with step_size = 1.0: den == 0 gives
\* back theta with SE +inf, a negative den raises ValueError in math.sqrt.
map_result(theta, U, den, prior_mean, prior_info) ==
    IF den = 0 THEN Estimate("ok", theta, FALSE, 0)
    ELSE IF den < 0 THEN Estimate("raise", theta, FALSE, 0)
    ELSE Estimate("ok", clamp(newton_step(theta, U, den, prior_mean, prior_info)),
                  TRUE, se_of(den))

\* irt_core.update_theta_map(theta, answered_items, irt_params, prior_mean,
\* prior_var)
update_theta_map(theta, answered_items, pars, prior_mean, prior_var) ==
    IF prior_var = 0 THEN Estimate("raise", theta, FALSE, 0)
    ELSE map_result(theta,
                    map_U(theta, answered_items, pars, 1),
                    map_I(theta, answered_items, pars, 1) + precision_of(prior_var),
                    prior_mean, precision_of(prior_var))

\* ------------------------------------------- sat_ai_core (session module)
TopK == 4                    \* top_k the session loop passes

\* sat_ai_core.update_theta_map_once(theta, answered_items, irt_params): the
\* loop over the history is that of update_theta_map (missing parameters,
\* degenerate a, c and p outside (1e-6, 1 - 1e-6) are passed over), then
\* den = I + 1.0, theta_new = theta + U / den clamped to THETA_BOUNDS and
\* se = 1.0 / sqrt(den).
sat_estimate(theta, U, den) ==
    Estimate("ok", clamp(theta + RoundDiv(U * 1000, den)), TRUE, se_of(den))

sat_update_theta_map_once(theta, answered_items, pars) ==
    sat_estimate(theta,
                 map_U(theta, answered_items, pars, 1),
                 map_I(theta, answered_items, pars, 1) + Scale)

\* skill_wrong[skill]: wrong answers in the history to items of the skill.
skill_wrong(history, skills, skill) ==
    Cardinality({k \in 1..Len(history) :
                    skills[history[k][1]] = skill /\ history[k][2] = 0})

\* skill_weight(skill), in halves: 0.5 off the focus skill, else
\* 1.0 + 0.5 per wrong answer in the skill.
skill_weight(history, skills, focus_skill, skill) ==
    IF focus_skill # "" /\ skill # focus_skill THEN 1
    ELSE 2 + skill_wrong(history, skills, skill)

\* abs(theta - b), in thousandths
abs_gap(theta, b) == Max(theta - 100 * b, 100 * b - theta)

\* final_score = info * diff_score * w with diff_score = 1 / (1 + |theta - b|),
\* in halves of 1/Scale.
final_score(theta, pars, w) ==
    RoundDiv(fisher_info(theta, pars) * 1000 * w, 1000 + abs_gap(theta, pars.b))

\* The loop over items: unasked, with parameters, info > 0.
sat_candidates(theta, asked_ids, bank, pars) ==
    {i \in bank : i \notin asked_ids /\ i \in DOMAIN pars /\ fisher_info(theta, pars[i]) > 0}

\* The scores of the candidates.
sat_scores(theta, cands, pars, history, skills, focus_skill) ==
    [i \in cands |->
        final_score(theta, pars[i], skill_weight(history, skills, focus_skill, skills[i]))]

\* Mutant: the sorted list is not cut to top_k.
top_candidates_uncut(cands, score) == cands

\* candidates.sort(reverse=True)[:top_k]: the sort is stable, so of two
\* equal scores the earlier item of the bank comes first.
ranked_before(score, i) ==
    {j \in DOMAIN score : score[j] > score[i] \/ (score[j] = score[i] /\ j < i)}

top_candidates(cands, score) ==
    UNION { {i \in cands : Cardinality(ranked_before(sc, i)) < TopK} : sc \in {score} }

\* The items random.choice may return from sat_ai_core.select_next_item;
\* empty when the function returns None.
sat_select_next_item(theta, asked_ids, bank, pars, history, skills, focus_skill) ==
    top_candidates(sat_candidates(theta, asked_ids, bank, pars),
                   sat_scores(theta, sat_candidates(theta, asked_ids, bank, pars),
                              pars, history, skills, focus_skill))

\* ----------------------------------------------------- bank and parameters
ItemV2(id, domain, skill, difficulty_tag) ==
    [id |-> id, domain |-> domain, skill |-> skill, difficulty_tag |-> difficulty_tag]
IRTParams(a, b, c, exposure) == [a |-> a, b |-> b, c |-> c, exposure |-> exposure]

\* The taxonomy cells and stored parameters the bank is built from; bank
\* position i takes profile ((i - 1) mod n) + 1.  Profile 3 is over-exposed,
\* profile 4 has a domain no blueprint knows, profile 5 an unrecognised
\* difficulty label, profile 6 degenerate parameters (a = 0), profile 7 no
\* entry in the parameter table.
ItemProfiles ==
    << <<"Math", "Algebra", "easy">>,
       <<"R&W", "Grammar", "medium">>,
       <<"Math", "Algebra", "easy">>,
       <<"Science", "Physics", "easy">>,
       <<"Math", "Algebra", "tricky">>,
       <<"Math", "Geometry", "medium">>,
       <<"R&W", "Grammar", "hard">> >>

ParamProfiles ==
    << IRTParams(12, 0, 20, 0),
       IRTParams(10, 10, 25, 25),
       IRTParams(20, 0, 0, 98),
       IRTParams(10, -10, 20, 0),
       IRTParams(12, 10, 20, 0),
       IRTParams(0, 0, 20, 0),
       None >>

ProfileOf(i) == ((i - 1) % Len(ItemProfiles)) + 1

\* The bank: an ordered list of items with ids 1..NItems.
items ==
    [i \in 1..NItems |->
        LET p == ItemProfiles[ProfileOf(i)] IN ItemV2(i, p[1], p[2], p[3])]

ItemIds == 1..NItems

\* The parameter table at session start.
InitialParams ==
    [i \in {j \in ItemIds : ParamProfiles[ProfileOf(j)] # None} |->
        ParamProfiles[ProfileOf(i)]]

Thetas == {-1000, 0, 1000}
ExposureLimits == {DefaultExposureLimit, ExposureCap}

\* ------------------------------------------------------ adaptive selector
\* Lines 75-77: the running best after looking at bank position i.
better(best, i, info) ==
    IF info > best.info THEN [item |-> i, info |-> info] ELSE best

\* One pass of "for item in items": the first item, in bank order, whose
\* info is strictly greater than every earlier eligible one.
RECURSIVE scan(_, _, _, _, _)
scan(theta, pars, eligible, best, i) ==
    IF i > NItems THEN best
    ELSE IF items[i].id \notin eligible THEN scan(theta, pars, eligible, best, i + 1)
    ELSE scan(theta, pars, eligible,
              better(best, i, fisher_info(theta, pars[items[i].id])), i + 1)

\* Mutant: the first loop without the blueprint filter.
first_pass_no_blueprint(pars, asked_ids, state, limit) ==
    {id \in ItemIds :
        /\ id \notin asked_ids
        /\ id \in DOMAIN pars
        /\ ~(pars[id].exposure >= limit)}

\* Mutant: the first loop forgets the asked filter.
first_pass_keeps_asked(pars, asked_ids, state, limit) ==
    {id \in ItemIds :
        /\ (state # None =>
              blueprint_ok(items[id].domain, items[id].skill,
                           items[id].difficulty_tag, state))
        /\ id \in DOMAIN pars
        /\ ~(pars[id].exposure >= limit)}

\* Filters of the first loop (lines 56-70).
first_pass_eligible(pars, asked_ids, state, limit) ==
    {id \in ItemIds :
        /\ id \notin asked_ids
        /\ (state # None =>
              blueprint_ok(items[id].domain, items[id].skill,
                           items[id].difficulty_tag, state))
        /\ id \in DOMAIN pars
        /\ ~(pars[id].exposure >= limit)}

\* Mutant: the fallback loop forgets the asked filter.
fallback_keeps_asked(pars, asked_ids) ==
    {id \in ItemIds : id \in DOMAIN pars}

\* Filters of the fallback loop (lines 85-91).
fallback_eligible(pars, asked_ids) ==
    {id \in ItemIds : id \notin asked_ids /\ id \in DOMAIN pars}

\* Mutant: the exposure is overwritten instead of incremented.
bump_exposure_overwrite(pars, id) ==
    IF id \in DOMAIN pars
    THEN [pars EXCEPT ![id].exposure = ExposureStep]
    ELSE pars

\* Lines 108-111: the chosen item's exposure rises by 0.05, capped at 1.0.
bump_exposure(pars, id) ==
    IF id \in DOMAIN pars
    THEN [pars EXCEPT ![id].exposure = Min(ExposureCap, @ + ExposureStep)]
    ELSE pars

\* What a call leaves when it changes nothing.
unchanged(kind, pass, pars, state) ==
    [kind |-> kind, id |-> 0, pass |-> pass, state |-> state, pars |-> pars]

\* Lines 104-116: blueprint counters, exposure, return.  upd is the result of
\* update_state_on_serve (or the untouched state when there is no blueprint).
served_result(it, pass, pars, state, upd) ==
    IF upd.raised THEN unchanged("raise", pass, pars, state)
    ELSE [kind |-> "item", id |-> it.id, pass |-> pass,
          state |-> upd.state, pars |-> bump_exposure(pars, it.id)]

\* Lines 98-106.
finish(best, pass, pars, state) ==
    IF best.item = NoItem THEN unchanged("none", pass, pars, state)
    ELSE served_result(
            items[best.item], pass, pars, state,
            IF state # None
            THEN update_state_on_serve(items[best.item].domain, items[best.item].skill,
                                       items[best.item].difficulty_tag, state)
            ELSE [raised |-> FALSE, state |-> state])

\* Lines 79-96: the fallback loop runs when the first loop found nothing and
\* a blueprint state was given.
after_first(theta, pars, asked_ids, state, best1) ==
    IF best1.item = NoItem /\ state # None
    THEN finish(scan(theta, pars, fallback_eligible(pars, asked_ids), best1, 1),
                "fallback", pars, state)
    ELSE finish(best1, "first", pars, state)

\* Mutant: the blueprint stop check of lines 48-51 is missing.
select_without_stop(theta, pars, asked_ids, state, limit) ==
    after_first(theta, pars, asked_ids, state,
        scan(theta, pars, first_pass_eligible(pars, asked_ids, state, limit),
             [item |-> NoItem, info |-> InitialBestInfo], 1))

\* select_next_item: the returned item (kind "item"), None (kind "none") or
\* an exception (kind "raise"), and the blueprint state and parameter table
\* the call leaves.
select_next_item(theta, pars, asked_ids, state, limit) ==
    IF state # None /\ should_stop_by_blueprint(state)
    THEN unchanged("none", "stop", pars, state)
    ELSE after_first(theta, pars, asked_ids, state,
             scan(theta, pars, first_pass_eligible(pars, asked_ids, state, limit),
                  [item |-> NoItem, info |-> InitialBestInfo], 1))

\* ------------------------------------------------------------------ state
VARIABLES
    bp_state,        \* the session's BlueprintState, or None
    irt_params,      \* id -> IRTParams (exposure is the mutable field)
    asked,           \* asked_ids kept by the caller
    exposure_limit,  \* the exposure_limit the session passes
    outcome,         \* how the last call ended
    calls,           \* select_next_item calls made
    returned,        \* items returned by select_next_item
    serves,          \* update_state_on_serve calls that completed
    theta_in,        \* the theta a MAP update is called with
    answered,        \* the history (item_id, resp) a MAP update is called with
    prior,           \* the prior_mean and prior_var a MAP update is called with
    estimate,        \* what the last MAP update gave back
    args,            \* the arguments and inputs of run_sat_ai_simulation
    run,             \* the locals of its loop and where the loop stands
    prob,            \* a prob_correct call: its arguments and its value
    now,             \* time.monotonic(), in seconds
    lock,            \* ApiThrottler._lock: the thread that holds it, 0 when free
    last_call,       \* ApiThrottler._last_call: key -> time of the last grant
    threads,         \* the threads inside _wait_for_slot: where each stands
    grants,          \* key -> the times written to _last_call, in order
    chat             \* a safe_openai_chat call: its locals and how it ended

map_vars == <<theta_in, answered, prior, estimate>>
loop_vars == <<args, run>>

aux_vars == <<prob, now, lock, last_call, threads, grants, chat>>

vars == <<bp_state, irt_params, asked, exposure_limit, outcome, calls, returned, serves,
          theta_in, answered, prior, estimate, args, run,
          prob, now, lock, last_call, threads, grants, chat>>

Lengths == -1..MaxLength
SessionLengths == 0..MaxSessionLength

\* Blueprints handed to the blueprint API.
Blueprints ==
    {make_default_blueprint(L) : L \in Lengths}
    \cup {TwoDomainBlueprint(L) : L \in Lengths}
    \cup {FlatBlueprint(L) : L \in Lengths}

\* Blueprints of selector sessions.
SessionBlueprints ==
    {make_default_blueprint(L) : L \in SessionLengths}
    \cup {TwoDomainBlueprint(L) : L \in SessionLengths}

NoOutcome == [kind |-> "init", id |-> 0, pass |-> "none", arg |-> <<>>]

\* No MAP update has been called.
NoEstimate == [fn |-> "none", kind |-> "init", theta |-> 0, finite |-> FALSE, se |-> 0]

\* theta, se: a float that may be NaN or infinite.
Float(finite, value) == [finite |-> finite, value |-> value]

\* run_sat_ai_simulation has not been called.
LoopIdle ==
    /\ args = None
    /\ run = None

\* No prob_correct call is being looked at.
ProbIdle == prob = None

\* No ApiThrottler is in use.
ThrottlerIdle ==
    /\ now = 0
    /\ lock = 0
    /\ last_call = <<>>
    /\ threads = <<>>
    /\ grants = <<>>
    /\ chat = None

AuxIdle == ProbIdle /\ ThrottlerIdle

\* The estimator's inputs while no history is kept.
MapIdle ==
    /\ theta_in = 0
    /\ answered = <<>>
    /\ prior = [mean |-> 0, var |-> 10]
    /\ estimate = NoEstimate

\* A session of the selector: a fresh blueprint state (or none), the stored
\* parameter table, any set of already asked ids.
Init ==
    /\ bp_state \in {None} \cup {initialize_state(sp) : sp \in SessionBlueprints}
    /\ irt_params = InitialParams
    /\ asked \in SUBSET ItemIds
    /\ exposure_limit \in ExposureLimits
    /\ outcome = NoOutcome
    /\ calls = 0
    /\ returned = 0
    /\ serves = 0
    /\ MapIdle
    /\ LoopIdle
    /\ AuxIdle

\* The caller has been handed an item it has not yet recorded as asked.
Pending == outcome.kind = "item" /\ outcome.id \notin asked

\* One call select_next_item(theta, items, irt_params, asked, bp_state, exposure_limit).
Select(theta) ==
    /\ calls < MaxCalls
    /\ ~Pending
    /\ \E r \in {select_next_item(theta, irt_params, asked, bp_state, exposure_limit)} :
          /\ bp_state' = r.state
          /\ irt_params' = r.pars
          /\ outcome' = [kind |-> r.kind, id |-> r.id, pass |-> r.pass, arg |-> <<>>]
          /\ returned' = IF r.kind = "item" THEN returned + 1 ELSE returned
          /\ serves' = IF r.kind = "item" /\ bp_state # None THEN serves + 1 ELSE serves
    /\ calls' = calls + 1
    /\ UNCHANGED <<asked, exposure_limit>>
    /\ UNCHANGED map_vars
    /\ UNCHANGED loop_vars
    /\ UNCHANGED aux_vars

\* The caller records the returned item as asked before it calls again.
Record ==
    /\ Pending
    /\ asked' = asked \cup {outcome.id}
    /\ UNCHANGED <<bp_state, irt_params, exposure_limit, outcome, calls, returned, serves>>
    /\ UNCHANGED map_vars
    /\ UNCHANGED loop_vars
    /\ UNCHANGED aux_vars

Next == (\E theta \in Thetas : Select(theta)) \/ Record

Spec == Init /\ [][Next]_vars

\* ------------------------------------------- the blueprint API on its own
ServeDomains == {"Math", "R&W", "Science"}
ServeSkills == {"Algebra", "Grammar", "Physics"}
ServeDiffs == {"easy", "medium", "hard", "tricky"}

InitBp ==
    /\ bp_state \in {initialize_state(sp) : sp \in Blueprints}
    /\ irt_params = InitialParams
    /\ asked = {}
    /\ exposure_limit = DefaultExposureLimit
    /\ outcome = NoOutcome
    /\ calls = 0
    /\ returned = 0
    /\ serves = 0
    /\ MapIdle
    /\ LoopIdle
    /\ AuxIdle

\* One call update_state_on_serve(d, s, k, bp_state); outcome.arg keeps the
\* arguments of a call that completed.
Serve(d, s, k) ==
    /\ serves < MaxServes
    /\ \E r \in {update_state_on_serve(d, s, k, bp_state)} :
          /\ bp_state' = r.state
          /\ outcome' = [kind |-> IF r.raised THEN "raise" ELSE "served",
                         id |-> 0, pass |-> "none",
                         arg |-> IF r.raised THEN <<>> ELSE <<d, s, k>>]
          /\ serves' = IF r.raised THEN serves ELSE serves + 1
    /\ UNCHANGED <<irt_params, asked, exposure_limit, calls, returned>>
    /\ UNCHANGED map_vars
    /\ UNCHANGED loop_vars
    /\ UNCHANGED aux_vars

NextBp == \E d \in ServeDomains, s \in ServeSkills, k \in ServeDiffs : Serve(d, s, k)

SpecBp == InitBp /\ [][NextBp]_vars

\* ------------------------------------------------ the MAP update on its own
\* The parameter table of the estimator: item 1 is the item of
\* test_map_update_theta_increases_if_correct, item 2 a flat valid item,
\* item 3 has a < 0, item 4 c < 0, item 5 is valid and so hard that p stays
\* below EPS, item 6 has no entry.
ScoredParams ==
    [i \in 1..5 |->
        << IRTParams(12, 0, 20, 0),
           IRTParams(2, 0, 0, 0),
           IRTParams(-10, 0, 20, 0),
           IRTParams(2, 0, -20, 0),
           IRTParams(30, 80, 0, 0) >>[i]]

ScoredIds == 1..6
Responses == {0, 1}
MapThetas == {-1000, 0, 1000}

\* (prior_mean, prior_var): the default N(0, 1), a flat prior, a prior
\* centred above THETA_MAX, a negative and a zero variance.
MapPriors ==
    { [mean |-> 0, var |-> 10], [mean |-> 0, var |-> 1000], [mean |-> 50, var |-> 10],
      [mean |-> 0, var |-> -10], [mean |-> 0, var |-> 0] }

SelectorIdle ==
    /\ bp_state = None
    /\ irt_params = InitialParams
    /\ asked = {}
    /\ exposure_limit = DefaultExposureLimit
    /\ outcome = NoOutcome
    /\ calls = 0
    /\ returned = 0
    /\ serves = 0

sel_vars == <<bp_state, irt_params, asked, exposure_limit, outcome, calls, returned, serves>>

InitMap ==
    /\ SelectorIdle
    /\ theta_in \in MapThetas
    /\ answered = <<>>
    /\ prior \in MapPriors
    /\ estimate = NoEstimate
    /\ LoopIdle
    /\ AuxIdle

\* The session appends one answered pair to the history.
Answer(item_id, resp) ==
    /\ Len(answered) < MaxAnswers
    /\ answered' = Append(answered, <<item_id, resp>>)
    /\ estimate' = NoEstimate
    /\ UNCHANGED <<theta_in, prior>>
    /\ UNCHANGED sel_vars
    /\ UNCHANGED loop_vars
    /\ UNCHANGED aux_vars

\* One call update_theta_map_once(theta, answered_pairs, irt_params,
\* prior_mean, prior_var) of core.irt_engine.
UpdateOnce ==
    /\ estimate = NoEstimate
    /\ \E r \in {update_theta_map_once(theta_in, answered, ScoredParams, prior.mean, prior.var)} :
          estimate' = [fn |-> "once", kind |-> r.kind, theta |-> r.theta,
                       finite |-> r.finite, se |-> r.se]
    /\ UNCHANGED <<theta_in, answered, prior>>
    /\ UNCHANGED sel_vars
    /\ UNCHANGED loop_vars
    /\ UNCHANGED aux_vars

\* One call update_theta_map(theta, answered_items, irt_params, prior_mean,
\* prior_var) of sat_ai_core.irt_core.
UpdateMap ==
    /\ estimate = NoEstimate
    /\ \E r \in {update_theta_map(theta_in, answered, ScoredParams, prior.mean, prior.var)} :
          estimate' = [fn |-> "map", kind |-> r.kind, theta |-> r.theta,
                       finite |-> r.finite, se |-> r.se]
    /\ UNCHANGED <<theta_in, answered, prior>>
    /\ UNCHANGED sel_vars
    /\ UNCHANGED loop_vars
    /\ UNCHANGED aux_vars

NextMap ==
    \/ \E item_id \in ScoredIds, resp \in Responses : Answer(item_id, resp)
    \/ UpdateOnce
    \/ UpdateMap

SpecMap == InitMap /\ [][NextMap]_vars

\* ------------------------------------------------------ the session loop
DefaultConvergenceEps == 10  \* theta_convergence_eps = 0.01, in thousandths
DefaultSeThreshold == 250    \* se_threshold = 0.25, in thousandths

\* The skills of the bank's items, by id.
LoopSkills ==
    <<"Algebra", "Algebra", "Grammar", "Grammar", "Grammar", "Geometry", "Geometry">>

\* irt_params of the bank: item 3 has no entry, item 4 has a = 0.
LoopParams ==
    [i \in {1, 2, 4, 5, 6, 7} |->
        << IRTParams(12, 0, 20, 0),
           IRTParams(12, -10, 20, 0),
           None,
           IRTParams(0, 0, 20, 0),
           IRTParams(10, 5, 25, 0),
           IRTParams(8, 10, 20, 0),
           IRTParams(8, -5, 0, 0) >>[i]]

\* The bank is the first total_available items.
BankSizes == {2, 3, Len(LoopSkills)}
Bank == 1..args.total_available

\* A call of run_sat_ai_simulation with its defaults or with se_threshold =
\* 0.85, a focus skill or none, with or without max_duration_minutes.
InitLoop ==
    /\ SelectorIdle
    /\ theta_in = 0
    /\ answered = <<>>
    /\ prior = [mean |-> 0, var |-> 10]
    /\ estimate = NoEstimate
    /\ args \in [total_available : BankSizes,
                  max_steps : 0..MaxSteps,
                  theta_convergence_eps : {DefaultConvergenceEps},
                  se_threshold : {DefaultSeThreshold, 850},
                  focus_skill : {"", "Grammar"},
                  timed : BOOLEAN]
    /\ run = [theta |-> 0, prev_theta |-> Float(FALSE, 0), se |-> Float(FALSE, 0),
              step |-> 0, item |-> NoItem, at |-> "top", why |-> "none"]
    /\ AuxIdle

\* The conditions checked at the top of an iteration before the time check.
MayGoOn ==
    /\ run # None
    /\ run.at = "top"
    /\ run.step < args.max_steps
    /\ Cardinality(asked) < args.total_available

Stop(why) == run' = [run EXCEPT !.at = "done", !.why = why]

\* if step >= max_steps: break
StopAtMaxSteps ==
    /\ run # None
    /\ run.at = "top"
    /\ run.step >= args.max_steps
    /\ Stop("max_steps")
    /\ UNCHANGED <<args, asked, answered>>
    /\ UNCHANGED <<bp_state, irt_params, exposure_limit, outcome, calls, returned, serves>>
    /\ UNCHANGED <<theta_in, prior, estimate>>
    /\ UNCHANGED aux_vars

\* if len(asked) >= total_available: break
StopAtBankEnd ==
    /\ run # None
    /\ run.at = "top"
    /\ run.step < args.max_steps
    /\ Cardinality(asked) >= args.total_available
    /\ Stop("bank")
    /\ UNCHANGED <<args, asked, answered>>
    /\ UNCHANGED <<bp_state, irt_params, exposure_limit, outcome, calls, returned, serves>>
    /\ UNCHANGED <<theta_in, prior, estimate>>
    /\ UNCHANGED aux_vars

\* The clock has passed max_duration_minutes.
StopAtTimeOut ==
    /\ MayGoOn
    /\ args.timed
    /\ Stop("time")
    /\ UNCHANGED <<args, asked, answered>>
    /\ UNCHANGED <<bp_state, irt_params, exposure_limit, outcome, calls, returned, serves>>
    /\ UNCHANGED <<theta_in, prior, estimate>>
    /\ UNCHANGED aux_vars

\* select_next_item returns None: break; otherwise step += 1 and the item
\* is put to the user.
SelectQuestion ==
    /\ MayGoOn
    /\ \E top \in {sat_select_next_item(run.theta, asked, Bank, LoopParams,
                                         answered, LoopSkills, args.focus_skill)} :
          IF top = {} THEN Stop("no_item")
          ELSE \E i \in top :
                  run' = [run EXCEPT !.step = run.step + 1, !.item = i, !.at = "question"]
    /\ UNCHANGED <<args, asked, answered>>
    /\ UNCHANGED <<bp_state, irt_params, exposure_limit, outcome, calls, returned, serves>>
    /\ UNCHANGED <<theta_in, prior, estimate>>
    /\ UNCHANGED aux_vars

\* ans == "q": break
Quit ==
    /\ run # None
    /\ run.at = "question"
    /\ Stop("quit")
    /\ UNCHANGED <<args, asked, answered>>
    /\ UNCHANGED <<bp_state, irt_params, exposure_limit, outcome, calls, returned, serves>>
    /\ UNCHANGED <<theta_in, prior, estimate>>
    /\ UNCHANGED aux_vars

\* An answer that is no choice of the item: continue.
InvalidAnswer ==
    /\ run # None
    /\ run.at = "question"
    /\ run' = [run EXCEPT !.at = "top"]
    /\ UNCHANGED <<args, asked, answered>>
    /\ UNCHANGED <<bp_state, irt_params, exposure_limit, outcome, calls, returned, serves>>
    /\ UNCHANGED <<theta_in, prior, estimate>>
    /\ UNCHANGED aux_vars

\* The locals after the update r of theta: the convergence test of lines
\* 143-146 only prints, the SE test of lines 174-176 breaks.
after_update(locals, r, se_threshold) ==
    [locals EXCEPT !.prev_theta = Float(TRUE, locals.theta),
                   !.theta = r.theta,
                   !.se = Float(r.finite, r.se),
                   !.at = IF r.finite /\ r.se < se_threshold THEN "done" ELSE "top",
                   !.why = IF r.finite /\ r.se < se_threshold THEN "se" ELSE "none"]

\* A valid answer: the rest of the loop body, lines 131-176.
AnswerQuestion(correct) ==
    /\ run # None
    /\ run.at = "question"
    /\ asked' = asked \cup {run.item}
    /\ answered' = Append(answered, <<run.item, correct>>)
    /\ run' = after_update(run,
                  sat_update_theta_map_once(run.theta, answered', LoopParams),
                  args.se_threshold)
    /\ UNCHANGED args
    /\ UNCHANGED <<bp_state, irt_params, exposure_limit, outcome, calls, returned, serves>>
    /\ UNCHANGED <<theta_in, prior, estimate>>
    /\ UNCHANGED aux_vars

NextLoop ==
    \/ StopAtMaxSteps
    \/ StopAtBankEnd
    \/ StopAtTimeOut
    \/ SelectQuestion
    \/ Quit
    \/ InvalidAnswer
    \/ \E correct \in Responses : AnswerQuestion(correct)

SpecLoop == InitLoop /\ [][NextLoop]_vars

\* ------------------------------------------------- the top-k selectors
\* (1 / (1 + |theta - b|)) ** 0.8 of question_selector with beta = 0.8, in
\* 1/Scale, for |theta - b| = 0, 0.5, 1.0, 1.5, 2.0.
DiffFitPow == <<10000, 7230, 5743, 4804, 4152>>
DifficultyRange == 2000      \* difficulty_range = 2.0, in thousandths

\* diff_fit ** beta for a gap that is a multiple of 0.5 within the range.
qs_diff_fit(theta, b) == DiffFitPow[(abs_gap(theta, b) \div 500) + 1]

\* last_skill: the skill of the last history entry, "" for None.
qs_last_skill(history, skills) ==
    IF history = <<>> THEN "" ELSE skills[history[Len(history)][1]]

\* question_selector.skill_weight with gamma = 1.2, in thousandths:
\* 1 + 1.2 per wrong answer, halved off the focus skill, times 0.7 for the
\* skill asked last.
qs_focus_factor(base, focus_skill, skill) ==
    IF focus_skill # "" /\ skill # focus_skill THEN base \div 2 ELSE base

qs_cooldown(base, last_skill, skill) ==
    IF skill = last_skill THEN (base * 7) \div 10 ELSE base

qs_skill_weight(history, skills, focus_skill, skill) ==
    qs_cooldown(qs_focus_factor(1000 + 1200 * skill_wrong(history, skills, skill),
                                focus_skill, skill),
                qs_last_skill(history, skills), skill)

\* final_score = (info ** alpha) * (diff_fit ** beta) * weight, alpha = 1.0.
qs_final_score(theta, pars, w) ==
    ((fisher_info(theta, pars) * qs_diff_fit(theta, pars.b)) \div 1000) * w

\* The loop over items: unasked, with parameters, b within difficulty_range
\* of theta, info > 0.
qs_candidates(theta, asked_ids, bank, pars) ==
    {i \in bank :
        /\ i \notin asked_ids
        /\ i \in DOMAIN pars
        /\ ~(abs_gap(theta, pars[i].b) > DifficultyRange)
        /\ fisher_info(theta, pars[i]) > 0}

qs_scores(theta, cands, pars, history, skills, focus_skill) ==
    [i \in cands |->
        qs_final_score(theta, pars[i],
                       qs_skill_weight(history, skills, focus_skill, skills[i]))]

\* The items random.choice may return from question_selector.select_next_item;
\* empty when the function returns None.
qs_select_next_item(theta, asked_ids, bank, pars, history, skills, focus_skill) ==
    top_candidates(qs_candidates(theta, asked_ids, bank, pars),
                   qs_scores(theta, qs_candidates(theta, asked_ids, bank, pars),
                             pars, history, skills, focus_skill))

\* Inputs of one selector call: theta, asked_ids, history, focus_skill over
\* the whole bank.
PickThetas == {-1500, 0, 1000}
PickBank == 1..Len(LoopSkills)
PickAsked == {{}} \cup {{i} : i \in PickBank}
PickHistories ==
    { <<>>, << <<1, 0>> >>, << <<5, 0>>, <<6, 1>> >>, << <<7, 0>>, <<2, 0>> >> }

InitTopK ==
    /\ bp_state = None
    /\ irt_params = InitialParams
    /\ asked \in PickAsked
    /\ exposure_limit = DefaultExposureLimit
    /\ outcome = NoOutcome
    /\ calls = 0
    /\ returned = 0
    /\ serves = 0
    /\ theta_in \in PickThetas
    /\ answered \in PickHistories
    /\ prior = [mean |-> 0, var |-> 10]
    /\ estimate = NoEstimate
    /\ args \in [focus_skill : {"", "Grammar"}]
    /\ run = None
    /\ AuxIdle

\* What a top-k selector call gives back: one of the items random.choice can
\* draw, or None.
Picked(fn, top) ==
    /\ outcome = NoOutcome
    /\ IF top = {}
       THEN outcome' = [kind |-> "none", id |-> NoItem, pass |-> fn, arg |-> <<>>]
       ELSE \E i \in top :
               outcome' = [kind |-> "item", id |-> i, pass |-> fn, arg |-> <<>>]
    /\ calls' = calls + 1
    /\ UNCHANGED <<bp_state, irt_params, asked, exposure_limit, returned, serves>>
    /\ UNCHANGED map_vars
    /\ UNCHANGED loop_vars
    /\ UNCHANGED aux_vars

\* sat_ai_core.select_next_item(theta, asked_ids, items, irt_params,
\* history=..., focus_skill=...)
PickSat ==
    Picked("sat", sat_select_next_item(theta_in, asked, PickBank, LoopParams,
                                       answered, LoopSkills, args.focus_skill))

\* question_selector.select_next_item(theta, asked_ids, items, irt_params,
\* history=..., focus_skill=...)
PickQs ==
    Picked("qs", qs_select_next_item(theta_in, asked, PickBank, LoopParams,
                                     answered, LoopSkills, args.focus_skill))

NextTopK == PickSat \/ PickQs

SpecTopK == InitTopK /\ [][NextTopK]_vars

\* ------------------------------------------------- prob_correct calls
\* theta (thousandths), a and b (tenths), c (hundredths) of the calls looked
\* at: theta and b across [-4, 4], valid a and c.
ProbThetas == {-4000, -2000, 0, 2000, 4000}
ProbAs == {5, 12, 30}
ProbBs == {-40, 0, 40}
ProbCs == {0, 20, 25}

\* |z| of the call, in thousandths.
abs_logit(theta, a, b) == Max(logit(theta, a, b), -logit(theta, a, b))

\* The calls on which arithmetic in 1/Scale gives the comparisons of the
\* double arithmetic of the code: |z| <= 8.5, where p is more than 1/Scale
\* away from c and from 1; z >= 40, where 1.0 / (1.0 + exp(-z)) is 1.0; and
\* z <= -40 with c > 0, where c + (1 - c) * s rounds to c.
Decidable(theta, a, b, c) ==
    \/ abs_logit(theta, a, b) <= 8500
    \/ logit(theta, a, b) >= 40000
    \/ (logit(theta, a, b) <= -40000 /\ c > 0)

ProbCalls ==
    {x \in [theta : ProbThetas, a : ProbAs, b : ProbBs, c : ProbCs] :
        Decidable(x.theta, x.a, x.b, x.c)}

InitProb ==
    /\ SelectorIdle
    /\ MapIdle
    /\ LoopIdle
    /\ ThrottlerIdle
    /\ \E x \in ProbCalls :
          prob = [theta |-> x.theta, a |-> x.a, b |-> x.b, c |-> x.c,
                  p |-> 0, done |-> FALSE]

\* p = prob_correct(theta, a, b, c)
Evaluate ==
    /\ ~prob.done
    /\ prob' = [prob EXCEPT !.p = prob_correct(prob.theta, prob.a, prob.b, prob.c),
                            !.done = TRUE]
    /\ UNCHANGED <<now, lock, last_call, threads, grants, chat>>
    /\ UNCHANGED sel_vars
    /\ UNCHANGED map_vars
    /\ UNCHANGED loop_vars

NextProb == Evaluate

SpecProb == InitProb /\ [][NextProb]_vars

\* ------------------------------------------------ the CLI session loop
DefaultSteps == 5            \* "Enter = 5" and the fallback of line 111

\* What the caller and the user give for the number of questions: the
\* max_steps argument, or (argument None) the line typed at the prompt: empty,
\* "all", not a number, or a number.
StepInputs ==
    [kind : {"arg", "int"}, n : -1..(MaxSteps + 1)]
    \cup [kind : {"empty", "all", "junk"}, n : {0}]

\* Lines 102-111.
demo_max_steps(x, total_available) ==
    IF x.kind = "arg" THEN x.n
    ELSE IF x.kind \in {"empty", "all"} THEN Min(DefaultSteps, total_available)
    ELSE IF x.kind = "int" THEN Max(1, Min(x.n, total_available))
    ELSE DefaultSteps

\* A call of run_sat_demo over a bank of total_available items.
InitDemo ==
    /\ SelectorIdle
    /\ theta_in = 0
    /\ answered = <<>>
    /\ prior = [mean |-> 0, var |-> 10]
    /\ estimate = NoEstimate
    /\ \E n \in BankSizes, x \in StepInputs, f \in {"", "Grammar"}, t \in BOOLEAN :
          args = [total_available |-> n,
                  max_steps |-> demo_max_steps(x, n),
                  theta_convergence_eps |-> DefaultConvergenceEps,
                  se_threshold |-> DefaultSeThreshold,
                  focus_skill |-> f,
                  timed |-> t]
    /\ run = [theta |-> 0, prev_theta |-> Float(FALSE, 0), se |-> Float(FALSE, 0),
              step |-> 0, item |-> NoItem, at |-> "top", why |-> "none"]
    /\ AuxIdle

\* Lines 127-133: step >= max_steps or len(asked) >= total_available: break.
DemoStopAtLimit ==
    /\ run # None
    /\ run.at = "top"
    /\ ~MayGoOn
    /\ Stop(IF run.step >= args.max_steps THEN "max_steps" ELSE "bank")
    /\ UNCHANGED <<args, asked, answered>>
    /\ UNCHANGED <<bp_state, irt_params, exposure_limit, outcome, calls, returned, serves>>
    /\ UNCHANGED <<theta_in, prior, estimate>>
    /\ UNCHANGED aux_vars

\* Mutant: step is not incremented.
next_step_stuck(step) == step

\* step += 1
next_step(step) == step + 1

\* Lines 140-154: question_selector.select_next_item returns None: break;
\* otherwise step += 1 and the item is put to the user.  history is still
\* empty whenever the call is reached.
DemoSelectQuestion ==
    /\ MayGoOn
    /\ \E top \in {qs_select_next_item(run.theta, asked, Bank, LoopParams,
                                        <<>>, LoopSkills, args.focus_skill)} :
          IF top = {} THEN Stop("no_item")
          ELSE \E i \in top :
                  run' = [run EXCEPT !.step = next_step(run.step), !.item = i,
                                     !.at = "question"]
    /\ UNCHANGED <<args, asked, answered>>
    /\ UNCHANGED <<bp_state, irt_params, exposure_limit, outcome, calls, returned, serves>>
    /\ UNCHANGED <<theta_in, prior, estimate>>
    /\ UNCHANGED aux_vars

\* A valid answer, lines 168-177: the item is recorded, then
\* irt_core.update_theta_map_once, which sat_ai_core/irt_core.py does not
\* define, raises AttributeError and the exception leaves run_sat_demo.
DemoAnswerQuestion(correct) ==
    /\ run # None
    /\ run.at = "question"
    /\ asked' = asked \cup {run.item}
    /\ answered' = Append(answered, <<run.item, correct>>)
    /\ run' = [run EXCEPT !.at = "raised", !.why = "AttributeError"]
    /\ UNCHANGED args
    /\ UNCHANGED <<bp_state, irt_params, exposure_limit, outcome, calls, returned, serves>>
    /\ UNCHANGED <<theta_in, prior, estimate>>
    /\ UNCHANGED aux_vars

NextDemo ==
    \/ DemoStopAtLimit
    \/ StopAtTimeOut
    \/ DemoSelectQuestion
    \/ Quit
    \/ InvalidAnswer
    \/ \E correct \in Responses : DemoAnswerQuestion(correct)

SpecDemo == InitDemo /\ [][NextDemo]_vars

\* The interpreter goes on executing the loop and input() returns whatever
\* the user types: a step that can be taken is taken.
SpecDemoLive == SpecDemo /\ WF_vars(NextDemo)

\* ------------------------------------------------------- the ApiThrottler
MinInterval == 2             \* min_interval = 2.0 seconds
MaxWait == 30                \* max_wait = 30.0 seconds
GlobalKey == "__global__"
ChatModel == "gpt-4o-mini"
SlotKeys == {ChatModel, GlobalKey}
Threads == 1..NThreads
StartTimes == {0, MinInterval}

\* _key(model)
key_of(per_model, model) == IF per_model THEN model ELSE GlobalKey

\* self._last_call.get(key, 0.0)
last_of(calls_by_key, key) == IF key \in DOMAIN calls_by_key THEN calls_by_key[key] ELSE 0

\* self._last_call[key] = t
put(calls_by_key, key, t) ==
    [k \in DOMAIN calls_by_key \cup {key} |-> IF k = key THEN t ELSE calls_by_key[k]]

\* Lines 90-92: the time to sleep, 0 when elapsed >= min_interval.
slot_wait(t, last) == IF t - last < MinInterval THEN MinInterval - (t - last) ELSE 0

ThreadIdle == [pc |-> "idle", key |-> "", wake |-> 0]

\* The _wait_for_slot calls begun so far.
SlotCalls ==
    SumOver([k \in DOMAIN grants |-> Len(grants[k])], DOMAIN grants)
    + Cardinality({t \in Threads : threads[t].pc # "idle"})

\* One ApiThrottler shared by the threads; nobody has called it yet.
InitSlot ==
    /\ SelectorIdle
    /\ MapIdle
    /\ LoopIdle
    /\ ProbIdle
    /\ now \in StartTimes
    /\ lock = 0
    /\ last_call = <<>>
    /\ threads = [t \in Threads |-> ThreadIdle]
    /\ grants = [k \in SlotKeys |-> <<>>]
    /\ chat = None

slot_frame ==
    /\ UNCHANGED <<prob, chat>>
    /\ UNCHANGED sel_vars
    /\ UNCHANGED map_vars
    /\ UNCHANGED loop_vars

\* Lines 87-96: thread t takes the lock, reads the clock and the last grant
\* of the key; when it is too early it gives the lock back and sleeps,
\* otherwise it goes on to line 99 with the lock held.
Enter(t, key) ==
    /\ threads[t].pc = "idle"
    /\ SlotCalls < MaxGrants
    /\ lock = 0
    /\ IF slot_wait(now, last_of(last_call, key)) > 0
       THEN /\ threads' = [threads EXCEPT ![t] =
                  [pc |-> "sleep", key |-> key,
                   wake |-> now + slot_wait(now, last_of(last_call, key))]]
            /\ lock' = 0
       ELSE /\ threads' = [threads EXCEPT ![t] = [pc |-> "grant", key |-> key, wake |-> 0]]
            /\ lock' = t
    /\ UNCHANGED <<now, last_call, grants>>
    /\ slot_frame

\* Line 96: time.sleep(wait) returns, not before the time asked for.
Wake(t) ==
    /\ threads[t].pc = "sleep"
    /\ now >= threads[t].wake
    /\ threads' = [threads EXCEPT ![t].pc = "reacquire"]
    /\ UNCHANGED <<now, lock, last_call, grants>>
    /\ slot_frame

\* Line 98: self._lock.acquire() after the sleep.
Reacquire(t) ==
    /\ threads[t].pc = "reacquire"
    /\ lock = 0
    /\ lock' = t
    /\ threads' = [threads EXCEPT ![t].pc = "grant"]
    /\ UNCHANGED <<now, last_call, grants>>
    /\ slot_frame

\* Line 99 and the end of the with block: the grant is written and the lock
\* is released.
Grant(t) ==
    /\ threads[t].pc = "grant"
    /\ lock = t
    /\ last_call' = put(last_call, threads[t].key, now)
    /\ grants' = [grants EXCEPT ![threads[t].key] = Append(@, now)]
    /\ lock' = 0
    /\ threads' = [threads EXCEPT ![t] = ThreadIdle]
    /\ UNCHANGED now
    /\ slot_frame

\* A second passes.
Tick ==
    /\ now < MaxTime
    /\ now' = now + 1
    /\ UNCHANGED <<lock, last_call, threads, grants>>
    /\ slot_frame

NextSlot ==
    \/ \E t \in Threads, key \in SlotKeys : Enter(t, key)
    \/ \E t \in Threads : Wake(t)
    \/ \E t \in Threads : Reacquire(t)
    \/ \E t \in Threads : Grant(t)
    \/ Tick

SpecSlot == InitSlot /\ [][NextSlot]_vars

\* ------------------------------------------------------ safe_openai_chat
\* What client.chat.completions.create does on one attempt: a response,
\* RateLimitError without or with a Retry-After header, APITimeoutError,
\* APIError with a 5xx status, with another status, with no status, or an
\* exception that is no APIError.
ApiResults ==
    {"ok", "rate_limit", "rate_limit_retry_after", "timeout", "api_5xx", "api_4xx",
     "api_no_status", "other"}
RetryAfters == {-1, 3, 40}   \* Retry-After header values, in seconds
Jitters == {1, 2}            \* values of random.uniform(0.5, 2.0), in seconds

\* Mutant: every APIError with a status is retried.
is_retryable_any_status(res) ==
    res \in {"rate_limit", "rate_limit_retry_after", "timeout", "api_5xx", "api_4xx"}

\* Lines 134-155: the failures after which the loop sleeps and goes on.
is_retryable(res) ==
    res \in {"rate_limit", "rate_limit_retry_after", "timeout", "api_5xx"}

RECURSIVE pow2(_)
pow2(n) == IF n = 0 THEN 1 ELSE 2 * pow2(n - 1)

\* _compute_backoff(attempt, retry_after); has_header is retry_after is not None.
compute_backoff(attempt, has_header, retry_after, jitter) ==
    IF has_header THEN Min(MaxWait, Max(0, retry_after))
    ELSE Min(MaxWait, pow2(attempt) + jitter)

\* The time at which the one calling thread leaves _wait_for_slot.
slot_time(t, calls_by_key, key) == t + slot_wait(t, last_of(calls_by_key, key))

\* A safe_openai_chat call on a fresh ApiThrottler(max_retries=...,
\* per_model=...).
InitChat ==
    /\ SelectorIdle
    /\ MapIdle
    /\ LoopIdle
    /\ ProbIdle
    /\ now \in StartTimes
    /\ lock = 0
    /\ last_call = <<>>
    /\ threads = <<>>
    /\ grants = [k \in SlotKeys |-> <<>>]
    /\ chat \in [max_retries : 0..MaxRetries, per_model : BOOLEAN, attempt : {0},
                 at : {"loop"}, results : {<<>>}, exc : {"none"}, last_exc : {"none"}]

chat_frame ==
    /\ UNCHANGED <<prob, lock, threads>>
    /\ UNCHANGED sel_vars
    /\ UNCHANGED map_vars
    /\ UNCHANGED loop_vars

\* How one iteration of the for loop ends (lines 129-164).
after_attempt(locals, res) ==
    IF res = "ok" THEN [locals EXCEPT !.at = "returned"]
    ELSE IF is_retryable(res) THEN [locals EXCEPT !.last_exc = res]
    ELSE IF res \in {"api_4xx", "api_no_status"}
         THEN [locals EXCEPT !.at = "raised", !.exc = "APIError"]
    ELSE [locals EXCEPT !.at = "raised", !.exc = "ThrottlerError", !.last_exc = res]

\* One iteration of "for attempt in range(1, max_retries + 1)": the slot is
\* waited for, the API is called, a retryable failure is slept off.
Attempt(res, retry_after, jitter) ==
    /\ chat # None
    /\ chat.at = "loop"
    /\ chat.attempt < chat.max_retries
    /\ \E key \in {key_of(chat.per_model, ChatModel)} :
       \E t \in {slot_time(now, last_call, key)} :
          /\ last_call' = put(last_call, key, t)
          /\ grants' = [grants EXCEPT ![key] = Append(@, t)]
          /\ now' = IF is_retryable(res)
                    THEN t + compute_backoff(chat.attempt + 1,
                                             res = "rate_limit_retry_after",
                                             retry_after, jitter)
                    ELSE t
    /\ chat' = after_attempt([chat EXCEPT !.attempt = @ + 1,
                                          !.results = Append(@, res)], res)
    /\ chat_frame

\* Line 167: the loop ran out of attempts.
Exhausted ==
    /\ chat # None
    /\ chat.at = "loop"
    /\ chat.attempt = chat.max_retries
    /\ chat' = [chat EXCEPT !.at = "raised", !.exc = "ThrottlerError"]
    /\ UNCHANGED <<now, last_call, grants>>
    /\ chat_frame

NextChat ==
    \/ \E res \in ApiResults, retry_after \in RetryAfters, jitter \in Jitters :
          Attempt(res, retry_after, jitter)
    \/ Exhausted

SpecChat == InitChat /\ [][NextChat]_vars

\* ================================================================ claims
\* A step that is one select_next_item call.
SelectStep == calls' = calls + 1

\* A step that is one completed update_state_on_serve call of the blueprint API.
ServeStep == serves' = serves + 1 /\ outcome'.kind = "served"

CellOk(id) ==
    blueprint_ok(items[id].domain, items[id].skill, items[id].difficulty_tag, bp_state)

\* Unasked, with parameters, under the exposure limit.
Eligible(id) ==
    /\ id \notin asked
    /\ id \in DOMAIN irt_params
    /\ irt_params[id].exposure < exposure_limit

\* C1: select_next_item never returns an item whose id is in asked_ids, with
\* or without a blueprint state, on the first pass and on the fallback pass.
C1_NeverReturnsAsked ==
    [][(SelectStep /\ outcome'.kind = "item") => outcome'.id \notin asked]_vars

C1_Witness ==
    /\ outcome.kind = "item"
    /\ outcome.pass = "fallback"
    /\ asked # {}
    /\ outcome.id \notin asked

\* C2: every item returned by select_next_item had, when the call started,
\* an exposure strictly below exposure_limit (also on the fallback pass).
C2_ReturnedUnderExposureLimit ==
    [][(SelectStep /\ outcome'.kind = "item")
          => irt_params[outcome'.id].exposure < exposure_limit]_vars

\* C3: with a blueprint state whose total served is >= spec.length the call
\* returns None, even if eligible items remain, and changes neither a
\* blueprint counter nor an exposure.
C3_StopReturnsNoneUnchanged ==
    [][(SelectStep /\ bp_state # None
          /\ total_served(bp_state) >= bp_state.spec.length)
          => (outcome'.kind = "none" /\ bp_state' = bp_state
                /\ irt_params' = irt_params)]_vars

C3_Witness ==
    /\ outcome.pass = "stop"
    /\ returned >= 1
    /\ \E id \in ItemIds : Eligible(id)

\* C4: with a blueprint state below its length, if some eligible item passes
\* blueprint_ok before the call, the call returns an item that passes
\* blueprint_ok on that state (so an item failing it is returned only when no
\* such candidate exists).
C4_BlueprintCandidateWins ==
    [][(SelectStep /\ bp_state # None
          /\ total_served(bp_state) < bp_state.spec.length
          /\ \E id \in ItemIds : Eligible(id) /\ CellOk(id))
          => (outcome'.kind = "item" /\ CellOk(outcome'.id))]_vars

C4_Witness ==
    /\ bp_state # None
    /\ outcome.kind = "item"
    /\ outcome.pass = "first"
    /\ \E id \in ItemIds : id # outcome.id /\ id \notin asked /\ id \in DOMAIN irt_params

\* C5: a call with a blueprint state that returns an item raises the total
\* served by exactly 1, a call that returns None leaves every counter as it
\* was; so the total served equals the number of items returned.
C5_ServedEqualsReturned ==
    /\ [](bp_state # None => total_served(bp_state) = returned)
    /\ [][(SelectStep /\ bp_state # None)
            => /\ outcome'.kind = "item"
                    => total_served(bp_state') = total_served(bp_state) + 1
               /\ outcome'.kind = "none" => bp_state' = bp_state]_vars

C5_Witness ==
    /\ bp_state # None
    /\ returned >= 2
    /\ outcome.kind = "none"

\* C6: a call that returns item i sets exposure(i) to min(1.0, old + 0.05)
\* and leaves every other exposure and every a, b, c as they were; every
\* exposure stays within [0,1] and never decreases.
C6_ExposureFrame ==
    /\ [](\A id \in DOMAIN irt_params :
            0 <= irt_params[id].exposure /\ irt_params[id].exposure <= ExposureCap)
    /\ [][/\ (SelectStep /\ outcome'.kind = "item")
              => irt_params' =
                   [irt_params EXCEPT ![outcome'.id].exposure =
                       Min(ExposureCap, @ + ExposureStep)]
          /\ DOMAIN irt_params' = DOMAIN irt_params
          /\ \A id \in DOMAIN irt_params :
                /\ irt_params'[id].exposure >= irt_params[id].exposure
                /\ irt_params'[id].a = irt_params[id].a
                /\ irt_params'[id].b = irt_params[id].b
                /\ irt_params'[id].c = irt_params[id].c]_vars

C6_Witness ==
    /\ outcome.kind = "item"
    /\ irt_params[outcome.id].exposure = ExposureCap
    /\ \E id \in DOMAIN irt_params : irt_params[id].exposure = ExposureStep

\* C7: should_stop_by_blueprint is true exactly when the number of
\* update_state_on_serve calls completed since initialize_state is >=
\* spec.length (false after one serve and true after two for length 2), and
\* once true it stays true.
C7_StopIffServedLength ==
    /\ [](should_stop_by_blueprint(bp_state) <=> serves >= bp_state.spec.length)
    /\ [][should_stop_by_blueprint(bp_state) => should_stop_by_blueprint(bp_state')]_vars

C7_Witness ==
    /\ bp_state.spec.length = 2
    /\ serves = 2
    /\ should_stop_by_blueprint(bp_state)

\* C8: blueprint_ok is true iff the difficulty is easy, medium or hard and
\* the remaining quota of the domain, of the skill and of that bucket are all
\* positive; for a domain or skill outside the blueprint it is false.
C8_BlueprintOkIffQuota ==
    \A rem \in {remaining_quota(bp_state)} :
        \A d \in ServeDomains, s \in ServeSkills, k \in ServeDiffs :
            blueprint_ok(d, s, k, bp_state) <=>
                /\ k \in {"easy", "medium", "hard"}
                /\ d \in DOMAIN bp_state.spec.domains
                /\ s \in DOMAIN bp_state.spec.domains[d].skills
                /\ rem[d].total > 0
                /\ rem[d].by_skill[s].total > 0
                /\ rem[d].by_skill[s].by_diff[k] > 0

C8_Witness ==
    /\ serves >= 2
    /\ "R&W" \in DOMAIN bp_state.served
    /\ blueprint_ok("Math", "Algebra", "easy", bp_state)
    /\ ~blueprint_ok("R&W", "Grammar", "medium", bp_state)
    /\ bp_state.served["R&W"].by_skill["Grammar"].by_diff["medium"] = 2

\* C9: on a freshly initialised state blueprint_ok is true for every cell
\* whose domain weight, skill weight and difficulty proportion are all
\* positive; the claim names the default blueprint with total_length 4, so
\* it is stated for the lengths from 4 up.
C9_FreshCellsOk ==
    (serves = 0 /\ bp_state.spec.length >= 4) =>
        \A d \in DOMAIN bp_state.spec.domains :
            \A s \in DOMAIN bp_state.spec.domains[d].skills :
                \A k \in DiffLabels :
                    (/\ bp_state.spec.domains[d].weight > 0
                     /\ bp_state.spec.domains[d].skills[s].weight > 0
                     /\ bp_state.spec.domains[d].skills[s].difficulty[k] > 0)
                    => blueprint_ok(d, s, k, bp_state)

\* The counters after one serve of (d, s) that adds to the named bucket, or
\* to no bucket when bucket is not a label.
AfterServe(served, d, s, bucket) ==
    [served EXCEPT
        ![d] = [total |-> @.total + 1,
                by_skill |-> [@.by_skill EXCEPT
                    ![s] = [total |-> @.total + 1,
                            by_diff |-> IF bucket \in DiffLabels
                                        THEN [@.by_diff EXCEPT ![bucket] = @ + 1]
                                        ELSE @.by_diff]]]]

\* C10 as written: for every domain and skill of the spec and every
\* difficulty string, update_state_on_serve adds exactly 1 to the domain's
\* total, the skill's total and the bucket named by difficulty, and changes
\* no other counter.
C10_AddsToNamedBucket ==
    [][ServeStep =>
          bp_state'.served =
             AfterServe(bp_state.served, outcome'.arg[1], outcome'.arg[2],
                        outcome'.arg[3])]_vars

\* C10 amended: ... adds exactly 1 to the domain's total, the skill's total
\* and one difficulty bucket - the one named by difficulty when it is easy,
\* medium or hard, the hard bucket for any other string - changes no other
\* counter and never lowers any counter.
C10_AddsToNamedOrHardBucket ==
    [][ServeStep =>
          /\ bp_state'.spec = bp_state.spec
          /\ bp_state'.served =
               AfterServe(bp_state.served, outcome'.arg[1], outcome'.arg[2],
                          IF outcome'.arg[3] \in DiffLabels
                          THEN outcome'.arg[3] ELSE "hard")]_vars

C10_Witness ==
    /\ outcome.kind = "served"
    /\ outcome.arg[3] = "tricky"
    /\ serves >= 2
    /\ bp_state.served["Math"].by_skill["Algebra"].by_diff["hard"] >= 1
    /\ bp_state.served["Math"].by_skill["Algebra"].by_diff["easy"] >= 1

\* The difference target - served floored at 0, node by node.
ClippedDifference(rem, tg, served) ==
    /\ DOMAIN rem = DOMAIN tg \cap DOMAIN served
    /\ \A d \in DOMAIN rem :
          /\ rem[d].total = Max(0, tg[d].total - served[d].total)
          /\ DOMAIN rem[d].by_skill = DOMAIN tg[d].by_skill \cap DOMAIN served[d].by_skill
          /\ \A s \in DOMAIN rem[d].by_skill :
                /\ rem[d].by_skill[s].total =
                      Max(0, tg[d].by_skill[s].total - served[d].by_skill[s].total)
                /\ \A k \in DiffLabels :
                      rem[d].by_skill[s].by_diff[k] =
                        Max(0, tg[d].by_skill[s].by_diff[k]
                                 - served[d].by_skill[s].by_diff[k])

\* The first serve of a session on the default blueprint is (Math, Algebra,
\* easy).
FirstDefaultServe ==
    /\ ServeStep
    /\ serves = 0
    /\ bp_state.spec = make_default_blueprint(bp_state.spec.length)
    /\ outcome'.arg = <<"Math", "Algebra", "easy">>

\* The Math total of remaining_quota goes down by exactly 1 in this step.
MathTotalDropsByOne ==
    remaining_quota(bp_state')["Math"].total = remaining_quota(bp_state)["Math"].total - 1

\* C11 as written: remaining_quota is max(0, target - served) at every
\* node, and on a fresh default blueprint of any total_length >= 1 one
\* update_state_on_serve('Math','Algebra','easy') lowers
\* remaining_quota['Math']['total'] by exactly 1.
C11_ServeLowersMathTotal ==
    /\ [](ClippedDifference(remaining_quota(bp_state),
                            compute_all_targets(bp_state.spec), bp_state.served))
    /\ [][(FirstDefaultServe /\ bp_state.spec.length >= 1) => MathTotalDropsByOne]_vars

\* C11 amended: remaining_quota is max(0, target - served) at every node,
\* and on a fresh default blueprint of total_length >= 2 (so that the Math
\* target floor(total_length * 0.5) is at least 1) the serve lowers
\* remaining_quota['Math']['total'] by exactly 1; with total_length 1 the
\* Math target is 0 and the total stays 0.
C11_ServeLowersPositiveMathTotal ==
    /\ [](ClippedDifference(remaining_quota(bp_state),
                            compute_all_targets(bp_state.spec), bp_state.served))
    /\ [][(FirstDefaultServe /\ bp_state.spec.length >= 2) => MathTotalDropsByOne]_vars
    /\ [][(FirstDefaultServe /\ bp_state.spec.length = 1) =>
             (/\ remaining_quota(bp_state)["Math"].total = 0
              /\ remaining_quota(bp_state')["Math"].total = 0)]_vars

C11_Witness ==
    /\ serves = 1
    /\ outcome.kind = "served"
    /\ outcome.arg = <<"Math", "Algebra", "easy">>
    /\ bp_state.spec = make_default_blueprint(4)
    /\ remaining_quota(bp_state)["Math"].total = 1

\* The sum of the domain targets of compute_all_targets.
DomainTargetSum(tg) == SumOver([d \in DOMAIN tg |-> tg[d].total], DOMAIN tg)

\* Domain weights (in hundredths) are non-negative and sum to 1.
DomainWeightsSumToOne(spec) ==
    /\ \A d \in DOMAIN spec.domains : spec.domains[d].weight >= 0
    /\ SumOver([d \in DOMAIN spec.domains |-> spec.domains[d].weight],
               DOMAIN spec.domains) = 100

\* C12: for every blueprint whose domain weights are non-negative and sum
\* to 1, the domain targets of compute_all_targets sum to at most length and
\* to more than length minus the number of domains.
C12_DomainTargetsSumNearLength ==
    DomainWeightsSumToOne(bp_state.spec) =>
        /\ DomainTargetSum(compute_all_targets(bp_state.spec)) <= bp_state.spec.length
        /\ DomainTargetSum(compute_all_targets(bp_state.spec)) >
              bp_state.spec.length - Cardinality(DOMAIN bp_state.spec.domains)

\* The configuration the spec calls valid: positive length, weights that sum
\* to 1 at every level, at least one skill in every domain.
ValidConfiguration(spec) ==
    /\ spec.length > 0
    /\ DomainWeightsSumToOne(spec)
    /\ \A d \in DOMAIN spec.domains :
          /\ DOMAIN spec.domains[d].skills # {}
          /\ SumOver([s \in DOMAIN spec.domains[d].skills |->
                         spec.domains[d].skills[s].weight],
                     DOMAIN spec.domains[d].skills) = 100
          /\ \A s \in DOMAIN spec.domains[d].skills :
                SumOver(spec.domains[d].skills[s].difficulty, DiffLabels) = 100

\* C13: no BlueprintState and no target tree exists for a spec whose
\* weights do not sum to 1, whose length is <= 0 or that has a domain
\* without skills: building it ends in a configuration error.
C13_InvalidSpecNeverInitialised ==
    ValidConfiguration(bp_state.spec)

\* Degenerate parameters: a <= 0 or c outside [0, 1).
Degenerate(pars) == pars.a <= 0 \/ ~(0 <= pars.c /\ pars.c < 100)

\* C14: select_next_item never returns an item whose IRT parameters are
\* degenerate (a <= 0 or c outside [0,1)), whatever the other candidates are.
C14_NeverReturnsDegenerate ==
    [][(SelectStep /\ outcome'.kind = "item") =>
          ~Degenerate(irt_params[outcome'.id])]_vars

\* No unasked item has an entry in the parameter table.
NoUnaskedWithParams == \A id \in ItemIds : id \in asked \/ id \notin DOMAIN irt_params

\* C19: when no unasked item has an IRT parameter entry, select_next_item
\* returns None without raising and changes no blueprint counter and no
\* exposure, with or without a blueprint state.
C19_NoCandidateReturnsNone ==
    [][(SelectStep /\ NoUnaskedWithParams) =>
          (/\ outcome'.kind = "none"
           /\ bp_state' = bp_state
           /\ irt_params' = irt_params)]_vars

C19_Witness ==
    /\ bp_state # None
    /\ outcome.kind = "none"
    /\ outcome.pass = "fallback"
    /\ NoUnaskedWithParams
    /\ asked # ItemIds


\* The pairs the MAP update is to skip at theta: the item has no parameters,
\* its a, c are degenerate, or its p is outside (EPS, 1 - EPS).
SkippedPair(theta, pair, pars) ==
    \/ pair[1] \notin DOMAIN pars
    \/ Degenerate(pars[pair[1]])
    \/ ~in_open_unit(prob_correct(theta, pars[pair[1]].a, pars[pair[1]].b, pars[pair[1]].c))

\* The history with those pairs removed.
KeptPairs(theta, pairs, pars) ==
    LET keep(pair) == ~SkippedPair(theta, pair, pars) IN SelectSeq(pairs, keep)

SameEstimate(r) ==
    /\ estimate.kind = r.kind
    /\ estimate.theta = r.theta
    /\ estimate.finite = r.finite
    /\ estimate.se = r.se

\* C15: a MAP update gives back what it gives for the history without the
\* pairs whose item is missing from the table, whose p is outside
\* (EPS, 1 - EPS) or whose a, c are degenerate.
C15_SkippedPairsAddNothing ==
    /\ estimate.fn = "once" =>
          SameEstimate(update_theta_map_once(theta_in,
                           KeptPairs(theta_in, answered, ScoredParams),
                           ScoredParams, prior.mean, prior.var))
    /\ estimate.fn = "map" =>
          SameEstimate(update_theta_map(theta_in,
                           KeptPairs(theta_in, answered, ScoredParams),
                           ScoredParams, prior.mean, prior.var))

\* A call update_theta_map_once(0.0, [(item, resp)], irt_params) with the
\* default prior N(0, 1) and valid parameters of the item has returned.
SingleValidPairCall ==
    /\ estimate.fn = "once"
    /\ theta_in = 0
    /\ prior = [mean |-> 0, var |-> 10]
    /\ Len(answered) = 1
    /\ answered[1][1] \in DOMAIN ScoredParams
    /\ ~Degenerate(ScoredParams[answered[1][1]])

\* theta_new > theta after a correct response, theta_new < theta after an
\* incorrect one.
MovesWithResponse ==
    /\ answered[1][2] = 1 => estimate.theta > theta_in
    /\ answered[1][2] = 0 => estimate.theta < theta_in

\* C16 as stated: with one answered item of valid parameters, theta = 0 and
\* the prior N(0, 1), update_theta_map_once raises theta on a correct
\* response and lowers it on an incorrect one.
C16_SinglePairMovesTheta == SingleValidPairCall => MovesWithResponse

\* C16, amended: the same for an item whose p at theta is inside
\* (EPS, 1 - EPS); a valid item the p test drops leaves theta where it was.
C16_SingleScoredPairMovesTheta ==
    SingleValidPairCall =>
        IF ~SkippedPair(theta_in, answered[1], ScoredParams)
        THEN MovesWithResponse
        ELSE estimate.theta = theta_in

\* The test's item answered correctly has raised theta.
C16_Witness ==
    /\ SingleValidPairCall
    /\ answered = << <<1, 1>> >>
    /\ estimate.theta > theta_in

\* A MAP update has returned or raised for a prior with prior_var > 0.
CalledWithProperPrior == estimate.fn # "none" /\ prior.var > 0

\* SE = 1/sqrt(1/prior_var): SE squared is prior_var (SE in thousandths,
\* prior_var in tenths).
SeIsPriorDeviation == estimate.se * estimate.se = prior.var * 100000

\* C17: with prior_var > 0 a MAP update returns a finite SE whatever the
\* history; with an empty history SE = 1/sqrt(1/prior_var) and theta_new is
\* prior_mean clamped to [THETA_MIN, THETA_MAX].
C17_FiniteSeUnderProperPrior ==
    CalledWithProperPrior =>
        /\ estimate.kind = "ok"
        /\ estimate.finite
        /\ estimate.se > 0
        /\ answered = <<>> =>
              /\ SeIsPriorDeviation
              /\ estimate.theta = Min(Max(100 * prior.mean, THETA_MIN), THETA_MAX)

\* update_theta_map_once has returned for a history whose two pairs are all
\* skipped, under the default prior.
C17_Witness ==
    /\ estimate.fn = "once"
    /\ prior = [mean |-> 0, var |-> 10]
    /\ theta_in = 1000
    /\ answered = << <<5, 1>>, <<6, 0>> >>
    /\ estimate.finite
    /\ estimate.se = 1000
    /\ estimate.theta = 0

\* C18: with prior_var > 0 the theta a MAP update returns lies in
\* [THETA_MIN, THETA_MAX], for every input theta and every history.
C18_ThetaStaysInBounds ==
    CalledWithProperPrior =>
        /\ THETA_MIN <= estimate.theta
        /\ estimate.theta <= THETA_MAX

\* Under the flat prior one correct answer to the flat item moves theta by
\* more than 4, and update_theta_map_once has returned THETA_MAX.
C18_Witness ==
    /\ estimate.fn = "once"
    /\ prior = [mean |-> 0, var |-> 1000]
    /\ theta_in = 0
    /\ answered = << <<2, 1>> >>
    /\ newton_step(theta_in, once_U(theta_in, answered, ScoredParams, 1),
                   once_I(theta_in, answered, ScoredParams, 1) + precision_of(prior.var),
                   prior.mean, precision_of(prior.var)) > THETA_MAX
    /\ estimate.theta = THETA_MAX

\* The last update of theta left |theta - prev_theta| < theta_convergence_eps.
Converged ==
    /\ run.prev_theta.finite
    /\ Max(run.theta - run.prev_theta.value, run.prev_theta.value - run.theta)
           < args.theta_convergence_eps

\* The last update left a finite SE below se_threshold.
SeReached == run.se.finite /\ run.se.value < args.se_threshold

\* C20: once an update of theta has left |theta - prev_theta| below
\* theta_convergence_eps, or SE below se_threshold, the session loop puts no
\* further item to the user.
C20_ConvergenceEndsLoop ==
    run.at = "question" => ~Converged /\ ~SeReached

\* The counters of one domain add up: total over the skills, and in every
\* skill total = easy + medium + hard.
CountersAddUp(dc) ==
    /\ dc.total = SumOver([s \in DOMAIN dc.by_skill |-> dc.by_skill[s].total],
                          DOMAIN dc.by_skill)
    /\ \A s \in DOMAIN dc.by_skill :
          dc.by_skill[s].total = dc.by_skill[s].by_diff["easy"]
                                 + dc.by_skill[s].by_diff["medium"]
                                 + dc.by_skill[s].by_diff["hard"]

\* C29: in every state reached from initialize_state by update_state_on_serve
\* calls, each domain's total is the sum of its skills' totals and each
\* skill's total is the sum of its three difficulty buckets.
C29_CountersAddUp ==
    \A d \in DOMAIN bp_state.served : CountersAddUp(bp_state.served[d])

\* Three serves have completed, in two domains and two buckets of one skill.
C29_Witness ==
    /\ serves = 3
    /\ "R&W" \in DOMAIN bp_state.served
    /\ bp_state.served["R&W"].total = 1
    /\ bp_state.served["Math"].by_skill["Algebra"].by_diff["easy"] = 1
    /\ bp_state.served["Math"].by_skill["Algebra"].by_diff["hard"] = 1

\* C27: when the blueprint counters are changed only by select_next_item and
\* spec.length >= 0, the total served never exceeds spec.length.
C27_ServedNeverExceedsLength ==
    (bp_state # None /\ bp_state.spec.length >= 0)
        => total_served(bp_state) <= bp_state.spec.length

\* The session has served its whole length and a later call was stopped
\* while eligible items remained.
C27_Witness ==
    /\ bp_state # None
    /\ bp_state.spec.length = MaxSessionLength
    /\ total_served(bp_state) = MaxSessionLength
    /\ calls = MaxSessionLength + 1
    /\ outcome.pass = "stop"
    /\ \E id \in ItemIds : Eligible(id)

\* C28: a select_next_item call with a blueprint state ends normally for
\* every bank, also one with unasked items whose domain or skill is not in
\* the blueprint: it never raises while it updates the counters.
C28_NeverRaises ==
    [][(SelectStep /\ bp_state # None) => outcome'.kind # "raise"]_vars

\* The item's domain and skill are in the blueprint.
InBlueprint(id) ==
    /\ items[id].domain \in DOMAIN bp_state.spec.domains
    /\ items[id].skill \in DOMAIN bp_state.spec.domains[items[id].domain].skills

\* The caller started with no asked ids and has recorded every returned id.
RecordedEveryReturn == ~Pending /\ Cardinality(asked) = returned

\* The bank holds at least spec.length items that have IRT parameters and
\* whose domain and skill are in the blueprint.
BankCoversLength ==
    Cardinality({id \in ItemIds : id \in DOMAIN irt_params /\ InBlueprint(id)})
        >= bp_state.spec.length

\* C26: in a session with a blueprint of length L whose caller adds every
\* returned id to asked_ids, over a bank with at least L parameterised items
\* of the blueprint's domains and skills, select_next_item returns an item on
\* each of the first L calls and None from call L + 1 on.
C26_LengthItemsThenNone ==
    [][(SelectStep /\ bp_state # None /\ RecordedEveryReturn /\ calls = returned
          /\ BankCoversLength)
          => IF calls < bp_state.spec.length
             THEN outcome'.kind = "item"
             ELSE outcome'.kind = "none"]_vars

\* ------------------------------------------------ a bank with equal items
\* Item 3 carries the parameters of item 1: the two have the same Fisher
\* information at every theta and sit in the same blueprint cell.
TiedParams == [InitialParams EXCEPT ![3] = InitialParams[1]]

\* A selector session over the bank with equal items.
InitTie ==
    /\ bp_state \in {None, initialize_state(make_default_blueprint(MaxSessionLength))}
    /\ irt_params = TiedParams
    /\ asked \in SUBSET ItemIds
    /\ exposure_limit \in ExposureLimits
    /\ outcome = NoOutcome
    /\ calls = 0
    /\ returned = 0
    /\ serves = 0
    /\ MapIdle
    /\ LoopIdle
    /\ AuxIdle

SpecTie == InitTie /\ [][Next]_vars

\* The candidates of the first loop and their highest Fisher information.
FirstPassCandidates == first_pass_eligible(irt_params, asked, bp_state, exposure_limit)

IsBest(theta, id) ==
    \A other \in FirstPassCandidates :
        fisher_info(theta, irt_params[other]) <= fisher_info(theta, irt_params[id])

\* The candidates that share the highest score, when there are two or more.
TiedBest(theta) ==
    IF Cardinality({id \in FirstPassCandidates : IsBest(theta, id)}) >= 2
    THEN {id \in FirstPassCandidates : IsBest(theta, id)}
    ELSE {}

\* The ids a call at theta can return on the inputs of the current state.
MayReturn(theta) ==
    {r.id : r \in {r \in {select_next_item(theta, irt_params, asked, bp_state,
                                            exposure_limit)} : r.kind = "item"}}

Stopped == bp_state # None /\ should_stop_by_blueprint(bp_state)

\* C21: when two or more eligible candidates share the highest score, the
\* call may return any of them on identical inputs; bank position and id do
\* not decide which.
C21_AnyTiedBestMayBeReturned ==
    ~Stopped =>
        \A theta \in Thetas : \A id \in TiedBest(theta) : id \in MayReturn(theta)

\* The candidates and scores of the selector call that gave the outcome.
PickCandidates ==
    IF outcome.pass = "qs"
    THEN qs_candidates(theta_in, asked, PickBank, LoopParams)
    ELSE sat_candidates(theta_in, asked, PickBank, LoopParams)

PickScores ==
    IF outcome.pass = "qs"
    THEN qs_scores(theta_in, PickCandidates, LoopParams, answered, LoopSkills,
                   args.focus_skill)
    ELSE sat_scores(theta_in, PickCandidates, LoopParams, answered, LoopSkills,
                    args.focus_skill)

\* The candidates whose score is strictly higher than that of item id.
ScoredHigher(id) == {j \in PickCandidates : PickScores[j] > PickScores[id]}

\* C22: the item a top-k selector returns is a candidate, and fewer than
\* top_k candidates have a strictly higher score.
C22_ReturnedAmongTopK ==
    outcome.kind = "item"
        => /\ outcome.id \in PickCandidates
           /\ Cardinality(ScoredHigher(outcome.id)) < TopK

\* question_selector had more than top_k candidates and returned one that is
\* not the best.
C22_Witness ==
    /\ outcome.kind = "item"
    /\ outcome.pass = "qs"
    /\ Cardinality(PickCandidates) > TopK
    /\ ScoredHigher(outcome.id) # {}

\* The guessing floor c and the value 1, in 1/Scale.
Floor(c) == c * (Scale \div 100)

C24_GrantsMinIntervalApart ==
    \A k \in DOMAIN grants :
        \A i, j \in 1..Len(grants[k]) :
            i < j => grants[k][j] - grants[k][i] >= MinInterval

\* C25: one safe_openai_chat call invokes the API at most max_retries times
\* and returns the first successful response; a further attempt follows only
\* a retryable failure (rate limit, timeout, 5xx); a non-5xx APIError is
\* re-raised at once; when all max_retries attempts fail retryably the call
\* raises ThrottlerError.
C25_RetriesOnlyRetryableFailures ==
    /\ Len(chat.results) <= chat.max_retries
    /\ chat.at = "returned"
          => /\ chat.results # <<>>
             /\ chat.results[Len(chat.results)] = "ok"
    /\ \A i \in 1..(Len(chat.results) - 1) :
          chat.results[i] \in {"rate_limit", "rate_limit_retry_after", "timeout", "api_5xx"}
    /\ \A i \in 1..Len(chat.results) :
          chat.results[i] \in {"api_4xx", "api_no_status"}
              => (i = Len(chat.results) /\ chat.at = "raised" /\ chat.exc = "APIError")
    /\ (chat.at # "loop" /\ Len(chat.results) = chat.max_retries
          /\ \A i \in 1..Len(chat.results) :
                chat.results[i] \in {"rate_limit", "rate_limit_retry_after", "timeout",
                                     "api_5xx"})
          => (chat.at = "raised" /\ chat.exc = "ThrottlerError")

\* The last allowed attempt succeeded after a server error and a rate limit.
C25_Witness ==
    /\ chat.at = "returned"
    /\ chat.max_retries = MaxRetries
    /\ Len(chat.results) = MaxRetries
    /\ chat.results[1] = "api_5xx"
    /\ chat.results[2] = "rate_limit"

\* The loop of run_sat_demo has been left, by break or by an exception.
LoopLeft == run.at \in {"done", "raised"}

\* An iteration that ended with "continue" on an invalid answer.
SkippedInvalid == run.at = "question" /\ run'.at = "top"

\* C30: the session loop of run_sat_demo terminates for every sequence of
\* user answers; every iteration either leaves the loop or increments step,
\* so at most max_steps items are presented; an item skipped for an invalid
\* answer is added neither to asked nor to answered_pairs.
C30_LoopTerminates ==
    /\ <>LoopLeft
    /\ [](run.step <= Max(0, args.max_steps))
    /\ [][(run.at = "top" /\ run'.at = "question") => run'.step = run.step + 1]_vars
    /\ [][(run.at = "top" /\ run'.at # "question") => LoopLeft']_vars
    /\ [][SkippedInvalid => (asked' = asked /\ answered' = answered)]_vars

\* The user gave only invalid answers: all max_steps items were presented,
\* none was recorded and the loop ended at the step limit.
C30_Witness ==
    /\ run.at = "done"
    /\ run.why = "max_steps"
    /\ run.step = args.max_steps
    /\ run.step >= 2
    /\ asked = {}
    /\ answered = <<>>
====
